---- MODULE Spec2Model ----
(***************************************************************************)
(* LxWEngD: the async runner (daemon/src/runner/{imp,mod,exec}.rs) and the *)
(* control loop of the daemon (daemon/src/daemon.rs).                      *)
(*                                                                         *)
(* One record per runner holds the RunnerHandle (index, commands, state,   *)
(* path, tx), the Runner (rx) and the position of the runner task.  A step *)
(* of a task is one stretch of code between two suspension points or lock  *)
(* sections.  The helper calls of imp.rs (next, prev, goto, update_state)  *)
(* are modelled as performing the bodies given in mod.rs.                  *)
(*                                                                         *)
(* A child process is "alive" from its spawn until it exits on its own or  *)
(* until cleanup() delivers SIGTERM to it.  A child whose Execution was    *)
(* dropped while it was alive is counted in orphans.                       *)
(***************************************************************************)
EXTENDS Integers, Sequences, FiniteSets, TLC

VARIABLES runners, registry, accepting, conn,
          exec, file, parsed, threads, known, mailbox, request

\* The async daemon and its runner tasks.
asyncVars == <<runners, registry, accepting, conn>>

\* The other components of the repository: one Execution on its own
\* (runner/exec.rs), the playlist parser (utils/playlist.rs, commands.rs) and
\* the thread-based daemon (src/src); and the line read from the connection
\* being served (utils/ipc.rs).
otherVars == <<exec, file, parsed, threads, known, mailbox, request>>

vars == <<runners, registry, accepting, conn, exec, file, parsed, threads, known, mailbox,
          request>>

\* A component that takes no part in a specification.
Off == "off"

OthersOff ==
    /\ exec = Off
    /\ file = Off
    /\ parsed = Off
    /\ threads = Off
    /\ known = Off
    /\ mailbox = Off
    /\ request = Off

(***************************************************************************)
(* Bounds of the model.                                                    *)
(***************************************************************************)
MaxRunners == 2
MaxQueue == 1
MaxGoto == 3
MaxOrphans == 1
MaxFifo == 2
MaxDur == 2
MaxCalls == 2
MaxLines == 2
MaxThreads == 2
MaxHops == 10

\* index is a usize: 0 - 1 wraps to the largest value in a release build.
\* The value stands for usize::MAX, scaled to the integers TLC has.
UsizeMax == 2147483647

Rids == 1..MaxRunners
Monitors == {"m1", "m2"}

(***************************************************************************)
(* Commands and Actions.                                                   *)
(***************************************************************************)
\* Property maps (HashMap<String, String>) over the keys the playlists use;
\* "-" stands for a key that is not in the map.
PropKeys == {"fps", "volume"}
NoProps == [k \in PropKeys |-> "-"]
OneProp(key, value) == [NoProps EXCEPT ![key] = value]

Wallpaper(id, dur) == [kind |-> "Wallpaper", id |-> id, dur |-> dur, props |-> NoProps]
Sleep(dur) == [kind |-> "Sleep", id |-> "-", dur |-> dur, props |-> NoProps]
Default == [kind |-> "Default", id |-> "-", dur |-> "-", props |-> NoProps]
DefaultWith(props) == [Default EXCEPT !.props = props]
End == [kind |-> "End", id |-> "-", dur |-> "-", props |-> NoProps]

Act(kind, i, cmd, clear) == [kind |-> kind, i |-> i, cmd |-> cmd, clear |-> clear]
ActNext == Act("Next", 0, End, FALSE)
ActPrev == Act("Prev", 0, End, FALSE)
ActGoto(i) == Act("Goto", i, End, FALSE)
ActExec(cmd) == Act("Exec", 0, cmd, FALSE)
ActPause(clear) == Act("Pause", 0, End, clear)
ActExit == Act("Exit", 0, End, FALSE)

\* The commands a client may hand to Action::Exec.
ExecCmds == {Wallpaper("x", "Finite"), Sleep("Infinite"), Default}

Action ==
    {ActNext, ActPrev, ActExit}
        \cup {ActGoto(i) : i \in 0..MaxGoto}
        \cup {ActExec(c) : c \in ExecCmds}
        \cup {ActPause(b) : b \in BOOLEAN}

\* The Actions the control loop forwards (unload, pause, play, quit).
IpcAction == {ActNext, ActExit} \cup {ActPause(b) : b \in BOOLEAN}

(***************************************************************************)
(* The playlist files: path -> parsed command list.  "empty" parses to no  *)
(* command, "missing" cannot be opened.                                    *)
(***************************************************************************)
Paths == {"p1", "p2", "p3", "p4", "p5", "p6", "p7", "empty", "missing"}

PlaylistStore(path) ==
    CASE path = "p1" -> <<Wallpaper("a", "Finite"), Sleep("Finite"), End>>
      [] path = "p2" -> <<Default, Wallpaper("a", "Infinite"), Wallpaper("b", "Finite")>>
      [] path = "p3" -> <<Sleep("Infinite"), End>>
      [] path = "p4" -> <<End>>
      [] path = "p5" -> <<Wallpaper("a", "Finite"), End>>
      [] path = "p6" -> <<Sleep("Infinite"), Sleep("Infinite")>>
      [] path = "p7" -> <<DefaultWith(OneProp("fps", "30")),
                          DefaultWith(OneProp("volume", "50")),
                          Sleep("Finite"), End>>
      [] OTHER -> <<>>

NewOkAlways(path) == TRUE

\* Runner::new: Ok exactly when the file opens and yields a command.
NewOk(path) == path # "missing" /\ PlaylistStore(path) # <<>>

(***************************************************************************)
(* Runner records.                                                         *)
(***************************************************************************)
NoRunner ==
    [ mon |-> "-", path |-> "-", commands |-> <<>>, index |-> 0,
      state |-> "None", rx |-> <<>>, pc |-> "none", default_props |-> NoProps,
      cmd |-> End, src |-> "-", child |-> "none", orphans |-> 0,
      lastRes |-> "none", lastIdx |-> -1, lastArg |-> -1,
      nextDisp |-> -1, badFetch |-> FALSE, lock |-> "free" ]

\* The lines of a status response: per monitor the state listed, "-" for a
\* monitor without a line.
NoLines == [m \in Monitors |-> "-"]

\* No connection served yet.
NoConn == [verb |-> "-", monitor |-> "-", resp |-> "-", live |-> FALSE, lines |-> NoLines]

NewRunner(mon, path) ==
    [ NoRunner EXCEPT !.mon = mon, !.path = path,
                      !.commands = PlaylistStore(path),
                      !.state = "Ready", !.pc = "fetch" ]

\* The receive side of the channel is gone once the task has ended.
Closed(x) == x.pc \in {"none", "done", "panicked"}

LiveChildren(x) == x.orphans + (IF x.child = "alive" THEN 1 ELSE 0)

\* The Actions sent and not yet received, over all channels.
RECURSIVE PendingUpTo(_, _)
PendingUpTo(rs, n) == IF n = 0 THEN 0 ELSE Len(rs[n].rx) + PendingUpTo(rs, n - 1)

Pending(rs) == PendingUpTo(rs, MaxRunners)

Min(a, b) == IF a < b THEN a ELSE b

(***************************************************************************)
(* Cursor helpers (runner/mod.rs) and the wrap of Runner::run.             *)
(***************************************************************************)
NormalizeOffByOne(i, len) == IF i > len THEN 0 ELSE i

Normalize(i, len) == IF i >= len THEN 0 ELSE i

nextStays(i) == i

next(i) == i + 1

\* usize subtraction: 0 - 1 wraps in a release build (a debug build panics,
\* see HandlePrev).
prev(i) == IF i = 0 THEN UsizeMax ELSE i - 1

gotoOneOff(i, target) == target + 1

goto(i, target) == target

\* LxWEng::update_default_props
update_default_props(old, defaults) == defaults

(***************************************************************************)
(* Execution (runner/exec.rs).                                             *)
(***************************************************************************)
\* Execution::cleanup: SIGTERM to a child that is still alive, nothing else.
cleanup(x) ==
    [x EXCEPT !.child = IF @ = "alive" THEN "termed" ELSE @]

\* The Execution value goes out of scope: a child that is still alive is no
\* longer held by anything (smol's Child does not kill on drop).
DropExec(x) ==
    [x EXCEPT !.orphans = IF x.child = "alive" THEN Min(@ + 1, MaxOrphans) ELSE @,
              !.child = "none"]

\* A panic ends the runner task: its locals are dropped, the handle keeps
\* the state it had.
Panic(x) == [DropExec(x) EXCEPT !.pc = "panicked", !.rx = <<>>]

\* Execution::begin, with ok = whether the spawn succeeded.
begin(x, ok) ==
    CASE x.cmd.kind = "Wallpaper" ->
            IF ok
            THEN [x EXCEPT !.child = "alive", !.state = "Running", !.pc = "result"]
            ELSE Panic(x)
      [] x.cmd.kind = "Sleep" ->
            [x EXCEPT !.child = "none", !.state = "Running", !.pc = "result"]
      [] OTHER -> Panic(x)

Elapsed == [kind |-> "Elapsed", action |-> ActNext]
Error == [kind |-> "Error", action |-> ActNext]
Interrupted(a) == [kind |-> "Interrupted", action |-> a]

ResultsTimerAlways(x) ==
    {Elapsed}
        \cup (IF x.cmd.kind = "Wallpaper" /\ x.child = "exited" THEN {Error} ELSE {})
        \cup (IF x.rx # <<>> THEN {Interrupted(Head(x.rx))} ELSE {})

\* Execution::result: the branches of the race that can complete now.
Results(x) ==
    (IF x.cmd.dur = "Finite" THEN {Elapsed} ELSE {})
        \cup (IF x.cmd.kind = "Wallpaper" /\ x.child = "exited" THEN {Error} ELSE {})
        \cup (IF x.rx # <<>> THEN {Interrupted(Head(x.rx))} ELSE {})

(***************************************************************************)
(* Runner::exec_async (runner/imp.rs): what follows exec.result().await.   *)
(***************************************************************************)
\* History of the Execution that just ended: its result, the cursor it ran
\* at, the argument of a Goto (of a Pause: 1 for clear, 0 otherwise).
SetLast(x, kind, arg) ==
    [x EXCEPT !.lastRes = kind, !.lastIdx = x.index, !.lastArg = arg,
              !.nextDisp = -1]

\* Elapsed, Error, Interrupted(Next): LoopFlag::Nothing.
HandleNothing(x) == [DropExec(cleanup(x)) EXCEPT !.pc = "advance"]

\* overflow = a build with overflow checks, where 0 - 1 panics.
HandlePrev(x, overflow) ==
    IF x.index = 0 /\ overflow
    THEN Panic(x)
    ELSE [DropExec(cleanup([x EXCEPT !.index = prev(x.index)])) EXCEPT !.pc = "fetch"]

HandleGoto(x, i) ==
    [DropExec(cleanup([x EXCEPT !.index = goto(x.index, i)])) EXCEPT !.pc = "fetch"]

HandleExecAdvancing(x, cmd) ==
    [DropExec(cleanup(x)) EXCEPT !.index = @ + 1, !.cmd = cmd, !.src = "exec",
                                 !.pc = "begin"]

HandleExec(x, cmd) ==
    [DropExec(cleanup(x)) EXCEPT !.cmd = cmd, !.src = "exec", !.pc = "begin"]

HandlePauseToReady(x, clear, overdue) ==
    [x EXCEPT !.state = "Ready", !.pc = "paused"]

\* overdue = more time than the duration has passed when remaining() runs:
\* `expected - actual` on Durations panics.
HandlePause(x, clear, overdue) ==
    LET y == IF clear THEN cleanup(x) ELSE x
    IN  IF x.cmd.dur = "Finite" /\ overdue
        THEN Panic(y)
        ELSE [y EXCEPT !.state = "Paused", !.pc = "paused"]

HandleExit(x) == [DropExec(cleanup(x)) EXCEPT !.pc = "exiting"]

exec_async(x, res, nd) ==
    LET a == res.action
        popped == [x EXCEPT !.rx = Tail(@)]
    IN  CASE res.kind = "Elapsed" -> HandleNothing(SetLast(x, "Elapsed", -1))
          [] res.kind = "Error" -> HandleNothing(SetLast(x, "Error", -1))
          [] a.kind = "Next" -> HandleNothing(SetLast(popped, "Next", -1))
          [] a.kind = "Prev" -> HandlePrev(SetLast(popped, "Prev", -1), nd)
          [] a.kind = "Goto" -> HandleGoto(SetLast(popped, "Goto", a.i), a.i)
          [] a.kind = "Exec" -> HandleExec(SetLast(popped, "Exec", -1), a.cmd)
          [] a.kind = "Pause" ->
                HandlePause(SetLast(popped, "Pause", IF a.clear THEN 1 ELSE 0), a.clear, nd)
          [] OTHER -> HandleExit(SetLast(popped, "Exit", -1))

(***************************************************************************)
(* Steps of a runner task.                                                 *)
(***************************************************************************)
\* Runner::run, top of the loop: wrap the cursor, fetch, dispatch.
fetch(x) ==
    LET i == Normalize(x.index, Len(x.commands))
    IN  IF i >= Len(x.commands)
        THEN [x EXCEPT !.index = i + 1, !.badFetch = TRUE]
        ELSE LET c == x.commands[i + 1]
                 y == [x EXCEPT !.index = i,
                                !.nextDisp = IF @ = -1 THEN i ELSE @]
             IN  CASE c.kind = "Default" ->
                        [y EXCEPT !.pc = "advance",
                                  !.default_props = update_default_props(@, c.props)]
                   [] c.kind = "End" -> [y EXCEPT !.pc = "exiting"]
                   [] OTHER -> [y EXCEPT !.cmd = c, !.src = "playlist", !.pc = "begin"]

Fetch(r) ==
    /\ runners[r].pc = "fetch"
    /\ runners' = [runners EXCEPT ![r] = fetch(@)]
    /\ UNCHANGED <<registry, accepting, conn, otherVars>>

Begin(r) ==
    /\ runners[r].pc = "begin"
    /\ \E ok \in BOOLEAN : runners' = [runners EXCEPT ![r] = begin(@, ok)]
    /\ UNCHANGED <<registry, accepting, conn, otherVars>>

Result(r) ==
    /\ runners[r].pc = "result"
    /\ \E res \in Results(runners[r]), nd \in BOOLEAN :
          runners' = [runners EXCEPT ![r] = exec_async(@, res, nd)]
    /\ UNCHANGED <<registry, accepting, conn, otherVars>>

PausedRecvDrains(r) ==
    /\ runners[r].pc = "paused"
    /\ runners[r].rx # <<>>
    /\ runners' = [runners EXCEPT ![r] =
          [DropExec(@) EXCEPT !.rx = <<>>, !.pc = "advance"]]
    /\ UNCHANGED <<registry, accepting, conn, otherVars>>

\* The Pause branch: self.rx.recv().await, then return LoopFlag::Nothing.
PausedRecv(r) ==
    /\ runners[r].pc = "paused"
    /\ runners[r].rx # <<>>
    /\ runners' = [runners EXCEPT ![r] =
          [DropExec(@) EXCEPT !.rx = Tail(runners[r].rx), !.pc = "advance"]]
    /\ UNCHANGED <<registry, accepting, conn, otherVars>>

\* self.next() at the bottom of the loop.
Advance(r) ==
    /\ runners[r].pc = "advance"
    /\ runners' = [runners EXCEPT ![r] = [@ EXCEPT !.index = next(@), !.pc = "fetch"]]
    /\ UNCHANGED <<registry, accepting, conn, otherVars>>

\* After the loop: update_state(State::Exited); the task ends.
Exiting(r) ==
    /\ runners[r].pc = "exiting"
    /\ runners' = [runners EXCEPT ![r] =
          [@ EXCEPT !.state = "Exited", !.pc = "done", !.rx = <<>>]]
    /\ UNCHANGED <<registry, accepting, conn, otherVars>>

\* The supervised child terminates on its own.
ChildExits(r) ==
    /\ runners[r].pc \in {"result", "paused"}
    /\ runners[r].child = "alive"
    /\ runners' = [runners EXCEPT ![r] = [@ EXCEPT !.child = "exited"]]
    /\ UNCHANGED <<registry, accepting, conn, otherVars>>

\* RunnerHandle::interrupt: try_send on the unbounded channel.
Interrupt(r, a) ==
    /\ ~Closed(runners[r])
    /\ Pending(runners) < MaxQueue
    /\ runners' = [runners EXCEPT ![r] = [@ EXCEPT !.rx = Append(@, a)]]
    /\ UNCHANGED <<registry, accepting, conn, otherVars>>

RunnerStep(r) ==
    \/ Fetch(r)
    \/ Begin(r)
    \/ Result(r)
    \/ PausedRecv(r)
    \/ Advance(r)
    \/ Exiting(r)

(***************************************************************************)
(* The runner specification: the daemon was started with a default         *)
(* playlist on monitor m1 (LxWEngd::start, not standby); the holder of the *)
(* handle may send any Action.                                             *)
(***************************************************************************)

Init ==
    /\ \E path \in {p \in Paths : NewOk(p)} :
          runners = [r \in Rids |-> IF r = 1 THEN NewRunner("m1", path) ELSE NoRunner]
    /\ registry = [m \in Monitors |-> IF m = "m1" THEN 1 ELSE 0]
    /\ accepting = TRUE
    /\ conn = NoConn
    /\ OthersOff

Next ==
    \E r \in Rids :
        \/ RunnerStep(r)
        \/ ChildExits(r)
        \/ \E a \in Action : Interrupt(r, a)

Spec == Init /\ [][Next]_vars

(***************************************************************************)
(* The control loop (daemon/src/daemon.rs).  conn is the connection served *)
(* last: the request, the response written, and whether the monitor named  *)
(* held a registered runner that had not exited when the request arrived.  *)
(***************************************************************************)
Live(reg, rs, m) == reg[m] # 0 /\ rs[reg[m]].state # "Exited"

Served(verb, m, resp) ==
    [verb |-> verb, monitor |-> m, resp |-> resp,
     live |-> Live(registry, runners, m), lines |-> NoLines]

\* The accept loop is at accept(): it has not ended and no request is being
\* handled.
Idle == accepting /\ conn.resp # "pending"

try_cleanup_keeps(reg, rs) == reg

\* LxWEngd::try_cleanup: the map without the handles whose state is Exited.
try_cleanup(reg, rs) ==
    [m \in Monitors |-> IF reg[m] # 0 /\ rs[reg[m]].state = "Exited" THEN 0 ELSE reg[m]]

\* A handle removed from the map is referenced by nothing once its task has
\* ended: its record is released.
Released(reg, rs) ==
    [r \in Rids |->
        IF \E m \in Monitors : reg[m] = r /\ rs[r].state = "Exited"
        THEN NoRunner ELSE rs[r]]

ForwardOkRegistered(reg, rs, m) == reg[m] # 0

contains_key_never(reg, m) == FALSE

contains_key(reg, m) == reg[m] # 0

FreeRids(rs) == {r \in Rids : rs[r].pc = "none"}

\* IPCCmd::Load
Load(path, m) ==
    LET reg == try_cleanup(registry, runners)
        rs == Released(registry, runners)
    IN  /\ Idle
        /\ IF contains_key(reg, m)
           THEN /\ registry' = reg
                /\ runners' = rs
                /\ conn' = Served("load", m, "AlreadyInUse")
           ELSE IF NewOk(path)
           THEN /\ FreeRids(rs) # {}
                /\ LET r == CHOOSE f \in FreeRids(rs) : \A g \in FreeRids(rs) : f <= g
                   IN  /\ registry' = [reg EXCEPT ![m] = r]
                       /\ runners' = [rs EXCEPT ![r] = NewRunner(m, path)]
                /\ conn' = Served("load", m, "OK")
           ELSE /\ registry' = reg
                /\ runners' = rs
                /\ conn' = Served("load", m, "InitFailed")
        /\ UNCHANGED <<accepting, otherVars>>

\* LxWEngd::forward_action: Ok exactly when the key is in the map and the
\* channel is open.
ForwardOk(reg, rs, m) == reg[m] # 0 /\ ~Closed(rs[reg[m]])

forward_action(reg, rs, m, a) ==
    IF ForwardOk(reg, rs, m)
    THEN [rs EXCEPT ![reg[m]] = [@ EXCEPT !.rx = Append(@, a)]]
    ELSE rs

\* IPCCmd::Unload, IPCCmd::Pause, IPCCmd::Play: purge, then forward.
Forward(verb, m, a) ==
    LET reg == try_cleanup(registry, runners)
        rs == Released(registry, runners)
    IN  /\ Idle
        /\ ForwardOk(reg, rs, m) => Pending(rs) < MaxQueue
        /\ registry' = reg
        /\ runners' = forward_action(reg, rs, m, a)
        /\ conn' = Served(verb, m, IF ForwardOk(reg, rs, m) THEN "OK" ELSE "NoSuchRunner")
        /\ UNCHANGED <<accepting, otherVars>>

Unload(m) == Forward("unload", m, ActExit)

Pause(clear, m) == Forward("pause", m, ActPause(clear))

Play(m) == Forward("play", m, ActNext)

\* IPCCmd::Quit: Exit to every key of the map, OK, leave the accept loop.
Quit ==
    /\ Idle
    /\ Pending(runners) + Cardinality({m \in Monitors : ForwardOk(registry, runners, m)})
          <= MaxQueue + 1
    /\ runners' = [r \in Rids |->
          IF \E m \in Monitors : registry[m] = r /\ ForwardOk(registry, runners, m)
          THEN [runners[r] EXCEPT !.rx = Append(@, ActExit)]
          ELSE runners[r]]
    /\ accepting' = FALSE
    /\ conn' = [NoConn EXCEPT !.verb = "quit", !.resp = "OK"]
    /\ UNCHANGED <<registry, otherVars>>

\* IPCCmd::Status, first statement: try_cleanup.  The handles are locked one
\* at a time, and the runner tasks run on the executor's threads meanwhile.
StatusPurge ==
    /\ Idle
    /\ registry' = try_cleanup(registry, runners)
    /\ runners' = Released(registry, runners)
    /\ conn' = [NoConn EXCEPT !.verb = "status", !.resp = "pending"]
    /\ UNCHANGED <<accepting, otherVars>>

\* LxWEngd::status_string: one entry per key of the map, with the state the
\* handle has when it is locked.
status_string(reg, rs) ==
    [m \in Monitors |-> IF reg[m] # 0 THEN rs[reg[m]].state ELSE "-"]

\* IPCCmd::Status, second and third statement: status_string, write_all.
StatusWrite ==
    /\ accepting
    /\ conn.verb = "status"
    /\ conn.resp = "pending"
    /\ conn' = [conn EXCEPT !.resp = "Status", !.lines = status_string(registry, runners)]
    /\ UNCHANGED <<runners, registry, accepting, otherVars>>

\* IPCCmd::Toggle (the monitor is not looked at): todo!() panics in LxWEngd::start; nothing is written and
\* the accept loop is gone.
Toggle ==
    /\ Idle
    /\ conn' = [NoConn EXCEPT !.verb = "toggle", !.resp = "none"]
    /\ accepting' = FALSE
    /\ UNCHANGED <<runners, registry, otherVars>>

\* A line IPCCmd::from_str rejects: the error text is the response.
Unparsable ==
    /\ Idle
    /\ conn' = [NoConn EXCEPT !.verb = "unparsable", !.resp = "ParseError"]
    /\ UNCHANGED <<runners, registry, accepting, otherVars>>

(***************************************************************************)
(* The daemon specification: started in standby, serving requests while    *)
(* the runner tasks run.                                                   *)
(***************************************************************************)
\* The load requests clients send: <<path, monitor>>.
LoadRequests ==
    { <<"p5", "m1">>, <<"missing", "m1">>,
      <<"p3", "m2">>, <<"p4", "m2">>, <<"empty", "m2">> }

DaemonInit ==
    /\ runners = [r \in Rids |-> NoRunner]
    /\ registry = [m \in Monitors |-> 0]
    /\ accepting = TRUE
    /\ conn = NoConn
    /\ OthersOff

DaemonNext ==
    \/ \E r \in Rids : RunnerStep(r) \/ ChildExits(r)
    \/ \E q \in LoadRequests : Load(q[1], q[2])
    \/ \E m \in Monitors :
          \/ Unload(m)
          \/ \E clear \in BOOLEAN : Pause(clear, m)
          \/ Play(m)
    \/ Toggle
    \/ StatusPurge
    \/ StatusWrite
    \/ Unparsable
    \/ Quit

DaemonSpec == DaemonInit /\ [][DaemonNext]_vars

(***************************************************************************)
(* The runner specification under fair scheduling, for a playlist of       *)
(* finite durations that ends with End and a client that sends only Next   *)
(* and Exit: the executor keeps running a task that can take a step, and a *)
(* timer that was set fires.                                               *)
(***************************************************************************)
LiveInit ==
    /\ \E path \in {"p1", "p4", "p5"} :
          runners = [r \in Rids |-> IF r = 1 THEN NewRunner("m1", path) ELSE NoRunner]
    /\ registry = [m \in Monitors |-> IF m = "m1" THEN 1 ELSE 0]
    /\ accepting = TRUE
    /\ conn = NoConn
    /\ OthersOff

LiveStep(r) ==
    \/ Fetch(r)
    \/ Begin(r)
    \/ Result(r)
    \/ Advance(r)
    \/ Exiting(r)

LiveNext ==
    \E r \in Rids :
        \/ LiveStep(r)
        \/ ChildExits(r)
        \/ \E a \in {ActNext, ActExit} : Interrupt(r, a)

LiveSpec == LiveInit /\ [][LiveNext]_vars /\ WF_vars(\E r \in Rids : LiveStep(r))

(***************************************************************************)
(* The runner specification with several Actions waiting in the channel:   *)
(* the holder of the handle sends up to MaxFifo Actions ahead of the       *)
(* runner.                                                                 *)
(***************************************************************************)
FifoActions == {ActNext, ActGoto(0), ActPause(TRUE), ActExit}

\* RunnerHandle::interrupt, with up to MaxFifo Actions waiting.
Send(r, a) ==
    /\ ~Closed(runners[r])
    /\ Len(runners[r].rx) < MaxFifo
    /\ runners' = [runners EXCEPT ![r] = [@ EXCEPT !.rx = Append(@, a)]]
    /\ UNCHANGED <<registry, accepting, conn, otherVars>>

FifoInit ==
    /\ \E path \in {"p2", "p3"} :
          runners = [r \in Rids |-> IF r = 1 THEN NewRunner("m1", path) ELSE NoRunner]
    /\ registry = [m \in Monitors |-> IF m = "m1" THEN 1 ELSE 0]
    /\ accepting = TRUE
    /\ conn = NoConn
    /\ OthersOff

FifoNext ==
    \E r \in Rids :
        \/ RunnerStep(r)
        \/ ChildExits(r)
        \/ \E a \in FifoActions : Send(r, a)

FifoSpec == FifoInit /\ [][FifoNext]_vars

(***************************************************************************)
(* The daemon under fair scheduling, for playlists of sleep commands (no   *)
(* child is spawned, no timer is set) and clients that load, pause and     *)
(* quit: the executor keeps running a runner task that can take a step.    *)
(***************************************************************************)
QuitLoads == { <<"p6", "m1">>, <<"p3", "m2">> }

QuitNext ==
    \/ \E r \in Rids : RunnerStep(r)
    \/ \E q \in QuitLoads : Load(q[1], q[2])
    \/ \E m \in Monitors, clear \in BOOLEAN : Pause(clear, m)
    \/ Quit

QuitSpec ==
    DaemonInit /\ [][QuitNext]_vars /\ \A r \in Rids : WF_vars(RunnerStep(r))

(***************************************************************************)
(* The runner with the Mutex of its handle made explicit: lock is "free",  *)
(* "task" (held by the runner task) or "control" (held by the control      *)
(* loop through lock_blocking).  The fetch block of Runner::run holds the  *)
(* guard over several statements and is split into its acquisition and    *)
(* the rest; next, prev, goto and update_state hold it for one statement,  *)
(* so the steps that call them need the lock free.                         *)
(***************************************************************************)
Created(r) == runners[r].pc # "none"

LockFree(r) == runners[r].lock = "free"

\* let mut internal = self.internal.lock().await
TaskLock(r) ==
    /\ runners[r].pc = "fetch"
    /\ LockFree(r)
    /\ runners' = [runners EXCEPT ![r] = [@ EXCEPT !.lock = "task"]]
    /\ UNCHANGED <<registry, accepting, conn, otherVars>>

TaskFetchKeepsGuard(r) ==
    /\ runners[r].pc = "fetch"
    /\ runners[r].lock = "task"
    /\ runners' = [runners EXCEPT ![r] = fetch(@)]
    /\ UNCHANGED <<registry, accepting, conn, otherVars>>

\* The rest of the fetch block; the guard is dropped at its end.
TaskFetch(r) ==
    /\ runners[r].pc = "fetch"
    /\ runners[r].lock = "task"
    /\ runners' = [runners EXCEPT ![r] = [fetch(@) EXCEPT !.lock = "free"]]
    /\ UNCHANGED <<registry, accepting, conn, otherVars>>

\* The steps whose statements take the lock for themselves.
TaskLockedStep(r) ==
    /\ LockFree(r)
    /\ \/ Begin(r)
       \/ Result(r)
       \/ Advance(r)
       \/ Exiting(r)

\* runner.lock_blocking() in forward_action, status_string, try_cleanup.
ControlLock(r) ==
    /\ Created(r)
    /\ LockFree(r)
    /\ runners' = [runners EXCEPT ![r] = [@ EXCEPT !.lock = "control"]]
    /\ UNCHANGED <<registry, accepting, conn, otherVars>>

\* forward_action: interrupt(action) under the guard, then the guard is
\* dropped.
ControlInterrupt(r, a) ==
    /\ runners[r].lock = "control"
    /\ Pending(runners) < MaxQueue
    /\ runners' = [runners EXCEPT ![r] =
          [@ EXCEPT !.rx = IF Closed(runners[r]) THEN @ ELSE Append(@, a),
                    !.lock = "free"]]
    /\ UNCHANGED <<registry, accepting, conn, otherVars>>

\* status_string, try_cleanup: the handle is read under the guard, then the
\* guard is dropped.
ControlRead(r) ==
    /\ runners[r].lock = "control"
    /\ runners' = [runners EXCEPT ![r] = [@ EXCEPT !.lock = "free"]]
    /\ UNCHANGED <<registry, accepting, conn, otherVars>>

LockNext ==
    \E r \in Rids :
        \/ TaskLock(r)
        \/ TaskFetch(r)
        \/ TaskLockedStep(r)
        \/ PausedRecv(r)
        \/ ChildExits(r)
        \/ ControlLock(r)
        \/ \E a \in IpcAction : ControlInterrupt(r, a)
        \/ ControlRead(r)

LockSpec == Init /\ [][LockNext]_vars

(***************************************************************************)
(* One Execution on its own (runner/exec.rs): a clock, the supervised      *)
(* child, and the calls the runner makes on it after the race was won by   *)
(* an Action (cleanup, remaining).  Durations are whole ticks of the       *)
(* clock.  A child that got SIGTERM ("termed") is still running until it   *)
(* exits.                                                                  *)
(***************************************************************************)
\* Option<Duration>
None == [some |-> FALSE, v |-> 0]
Some(n) == [some |-> TRUE, v |-> n]

Durations == {None} \cup {Some(n) : n \in 1..MaxDur}

\* Execution::begin: the Execution of a Wallpaper ("Supervise") or a Sleep.
NewExec(kind, duration) ==
    [ kind |-> kind, duration |-> duration, elapsed |-> 0,
      child |-> IF kind = "Supervise" THEN "alive" ELSE "none",
      pc |-> "result", calls |-> 0, signals |-> 0,
      ret |-> "-", cause |-> "-", rem |-> None ]

cleanup_call_kills_always(e, status_ok, kill_ok) ==
    [e EXCEPT !.calls = @ + 1, !.signals = @ + 1, !.ret = "Ok", !.cause = "-",
              !.child = IF e.kind = "Supervise" THEN "termed" ELSE @]

\* Execution::cleanup, with the outcome of child.try_status() (status_ok)
\* and of kill(pid, SIGTERM) (kill_ok).
cleanup_call(e, status_ok, kill_ok) ==
    LET called == [e EXCEPT !.calls = @ + 1]
    IN  CASE e.kind = "Sleep" -> [called EXCEPT !.ret = "Ok", !.cause = "-"]
          [] ~status_ok -> [called EXCEPT !.ret = "CleanupFail", !.cause = "status"]
          [] e.child \in {"alive", "termed"} ->
                IF kill_ok
                THEN [called EXCEPT !.child = "termed", !.signals = @ + 1,
                                    !.ret = "Ok", !.cause = "-"]
                ELSE [called EXCEPT !.ret = "CleanupFail", !.cause = "kill"]
          [] OTHER -> [called EXCEPT !.ret = "Ok", !.cause = "-"]

\* Execution::remaining, as used by update_state(State::Paused(..)):
\* `expected - actual` on Durations panics when actual > expected.
remaining(e) ==
    IF ~e.duration.some THEN [e EXCEPT !.rem = None, !.pc = "paused"]
    ELSE IF e.elapsed > e.duration.v
    THEN [e EXCEPT !.pc = "panicked"]
    ELSE [e EXCEPT !.rem = Some(e.duration.v - e.elapsed), !.pc = "paused"]

\* Time passes (Instant::now() grows).
ExecTick ==
    /\ exec.elapsed <= MaxDur
    /\ exec' = [exec EXCEPT !.elapsed = @ + 1]
    /\ UNCHANGED <<asyncVars, file, parsed, threads, known, mailbox, request>>

\* The supervised child exits, on its own or on the SIGTERM it got.
ExecChildExits ==
    /\ exec.child \in {"alive", "termed"}
    /\ exec' = [exec EXCEPT !.child = "exited"]
    /\ UNCHANGED <<asyncVars, file, parsed, threads, known, mailbox, request>>

\* The race of result() is won by an Action (here: Pause) before the timer
\* has completed.
ExecInterrupted ==
    /\ exec.pc = "result"
    /\ exec.duration.some => exec.elapsed <= exec.duration.v
    /\ exec' = [exec EXCEPT !.pc = "interrupted"]
    /\ UNCHANGED <<asyncVars, file, parsed, threads, known, mailbox, request>>

ExecCleanup ==
    /\ exec.calls < MaxCalls
    /\ \E status_ok \in BOOLEAN, kill_ok \in BOOLEAN :
          exec' = cleanup_call(exec, status_ok, kill_ok)
    /\ UNCHANGED <<asyncVars, file, parsed, threads, known, mailbox, request>>

\* self.update_state(State::Paused(exec.remaining()))
ExecRemaining ==
    /\ exec.pc = "interrupted"
    /\ exec' = remaining(exec)
    /\ UNCHANGED <<asyncVars, file, parsed, threads, known, mailbox, request>>

ExecInit ==
    /\ \E kind \in {"Supervise", "Sleep"}, duration \in Durations :
          exec = NewExec(kind, duration)
    /\ runners = Off
    /\ registry = Off
    /\ accepting = Off
    /\ conn = Off
    /\ file = Off
    /\ parsed = Off
    /\ threads = Off
    /\ known = Off
    /\ mailbox = Off
    /\ request = Off

ExecNext ==
    \/ ExecTick
    \/ ExecChildExits
    \/ ExecInterrupted
    \/ ExecCleanup
    \/ ExecRemaining

ExecSpec == ExecInit /\ [][ExecNext]_vars

(***************************************************************************)
(* The playlist parser (utils/playlist.rs, commands.rs).  A line is the    *)
(* sequence of its whitespace-separated tokens after trim(); the empty     *)
(* sequence is a blank line.  The tokens: the keywords, "w" for any other  *)
(* word, "5m" for a word duration_str accepts, "infinite", "fps=30" for a  *)
(* key=value pair, "#" for a token that starts a comment; "endless",       *)
(* "sleep5m" and "defaults" are single words that begin with a keyword.    *)
(***************************************************************************)
Tokens == {"end", "sleep", "default", "w", "5m", "infinite", "fps=30", "#",
           "endless", "sleep5m", "defaults"}

LineTexts ==
    { <<>>, <<"#">>, <<"end">>, <<"sleep", "5m">>, <<"sleep">>,
      <<"sleep", "w">>, <<"sleep", "infinite", "#">>, <<"w", "5m">>,
      <<"w", "infinite", "fps=30">>, <<"w", "5m", "w">>, <<"w">>,
      <<"w", "#">>, <<"default", "fps=30">>,
      <<"endless", "5m">>, <<"sleep5m">>, <<"defaults", "fps=30">> }

\* The files: up to MaxLines lines.
Files == UNION {[1..n -> LineTexts] : n \in 0..MaxLines}

\* A nom result: Ok(cmd), or Err with the ErrorKind of the failing parser.
POk(cmd) == [ok |-> TRUE, code |-> "-", cmd |-> cmd]
PErr(code) == [ok |-> FALSE, code |-> code, cmd |-> End]

\* WallpaperDuration::try_from
try_from(t) ==
    CASE t = "infinite" -> "Infinite"
      [] t = "5m" -> "Finite"
      [] OTHER -> "InvalidArgument"

\* parse_properties: an optional comment, then the leading key=value pairs;
\* what follows them is left unread.
parse_properties(rest) ==
    IF rest # <<>> /\ Head(rest) = "fps=30" THEN OneProp("fps", "30") ELSE NoProps

\* parse_duration: an optional comment (which eats the rest), then
\* take_till1 and map_res(try_from).
parse_duration(rest) ==
    IF rest = <<>> \/ Head(rest) = "#" THEN "TakeTill1"
    ELSE IF try_from(Head(rest)) = "InvalidArgument" THEN "MapRes"
    ELSE try_from(Head(rest))

\* What follows keyword kw in token t: "" when t is the keyword, the rest
\* of the word when t begins with it, "no" when it does not.
Strip(kw, t) ==
    CASE t = kw -> ""
      [] kw = "end" /\ t = "endless" -> "w"
      [] kw = "sleep" /\ t = "sleep5m" -> "5m"
      [] kw = "default" /\ t = "defaults" -> "w"
      [] OTHER -> "no"

\* tag(kw) followed by space0: succeeds when the line begins with the
\* characters of kw; the input left starts right after them.
tag(kw, l) ==
    IF l = <<>> \/ Strip(kw, Head(l)) = "no"
    THEN [ok |-> FALSE, rest |-> l]
    ELSE [ok |-> TRUE,
          rest |-> IF Strip(kw, Head(l)) = "" THEN Tail(l)
                   ELSE <<Strip(kw, Head(l))>> \o Tail(l)]

parse_end(l) ==
    IF tag("end", l).ok THEN POk(End) ELSE PErr("Tag")

parse_sleep(l) ==
    IF ~tag("sleep", l).ok THEN PErr("Tag")
    ELSE LET d == parse_duration(tag("sleep", l).rest)
         IN  IF d \in {"TakeTill1", "MapRes"} THEN PErr(d) ELSE POk(Sleep(d))

parse_default(l) ==
    IF ~tag("default", l).ok THEN PErr("Tag")
    ELSE POk(DefaultWith(parse_properties(tag("default", l).rest)))

\* parse_wallpaper: the id is any token that does not start a comment.
parse_wallpaper(l) ==
    IF l = <<>> \/ Head(l) = "#" THEN PErr("TakeTill1")
    ELSE LET d == parse_duration(Tail(l))
         IN  IF d \in {"TakeTill1", "MapRes"} THEN PErr(d)
             ELSE POk([Wallpaper(Head(l), d) EXCEPT
                          !.props = parse_properties(Tail(Tail(l)))])

\* alt((parse_end, parse_sleep, parse_default, parse_wallpaper)): the first
\* success, else the error of the last alternative.
parse_command(l) ==
    CASE parse_end(l).ok -> parse_end(l)
      [] parse_sleep(l).ok -> parse_sleep(l)
      [] parse_default(l).ok -> parse_default(l)
      [] OTHER -> parse_wallpaper(l)

\* commands::parse: the ErrorKind mapped to a ParseError.
parse(l) ==
    LET r == parse_command(l)
    IN  CASE r.ok -> r
          [] r.code = "TakeTill1" -> PErr("NotEnoughArguments")
          [] r.code = "MapRes" -> PErr("InvalidArgument")
          [] OTHER -> PErr("CommandNotFound")

RECURSIVE playlist_parse_aborts(_)
playlist_parse_aborts(f) ==
    IF f = <<>> THEN <<>>
    ELSE LET l == Head(f)
         IN  IF l = <<>> \/ Head(l) = "#" THEN playlist_parse_aborts(Tail(f))
             ELSE IF parse(l).ok THEN <<parse(l).cmd>> \o playlist_parse_aborts(Tail(f))
             ELSE <<>>

\* playlist::parse: filter_map over the lines; blank lines and comment
\* lines give nothing, a line that fails to parse is logged and gives
\* nothing.  (The empty result is returned as None.)
RECURSIVE playlist_parse(_)
playlist_parse(f) ==
    IF f = <<>> THEN <<>>
    ELSE LET l == Head(f)
         IN  IF l = <<>> \/ Head(l) = "#" THEN playlist_parse(Tail(f))
             ELSE IF parse(l).ok THEN <<parse(l).cmd>> \o playlist_parse(Tail(f))
             ELSE playlist_parse(Tail(f))

Unread == [pc |-> "unread", cmds |-> <<>>, line |-> <<>>, ret |-> PErr("-")]

\* Runner::new: playlist::parse(&path, &file)
ParsePlaylist ==
    /\ parsed.pc = "unread"
    /\ parsed' = [parsed EXCEPT !.pc = "file", !.cmds = playlist_parse(file)]
    /\ UNCHANGED <<asyncVars, exec, file, threads, known, mailbox, request>>

\* commands::parse called on the text of line i.
ParseLine(i) ==
    /\ parsed.pc = "unread"
    /\ parsed' = [parsed EXCEPT !.pc = "line", !.line = file[i], !.ret = parse(file[i])]
    /\ UNCHANGED <<asyncVars, exec, file, threads, known, mailbox, request>>

ParserInit ==
    /\ file \in Files
    /\ parsed = Unread
    /\ runners = Off
    /\ registry = Off
    /\ accepting = Off
    /\ conn = Off
    /\ exec = Off
    /\ threads = Off
    /\ known = Off
    /\ mailbox = Off
    /\ request = Off

ParserNext ==
    \/ ParsePlaylist
    \/ \E i \in 1..Len(file) : ParseLine(i)

ParserSpec == ParserInit /\ [][ParserNext]_vars

(***************************************************************************)
(* The thread-based daemon (src/src/main.rs, src/src/runner.rs): the main  *)
(* thread keeps the known runners and serves the requests the runner       *)
(* threads send over one mpsc channel.  A playlist is the BTreeMap of its   *)
(* lines: position k + 1 of the sequence is key k (line k + 1 of the       *)
(* file), LGap a line without a command.  A step of a runner thread is one *)
(* iteration of the loop of run() / dry_run().                             *)
(***************************************************************************)
Tids == 1..MaxThreads

LCmd(kind, line, count, path) == [kind |-> kind, line |-> line, count |-> count, path |-> path]
LGap == LCmd("Gap", 0, 0, "-")
LWallpaper == LCmd("Wallpaper", 0, 0, "-")
LForever == LCmd("Forever", 0, 0, "-")
LGoto(line, count) == LCmd("Goto", line, count, "-")
LSummon(path) == LCmd("Summon", 0, 0, path)
LReplace(path) == LCmd("Replace", 0, 0, path)
LEnd == LCmd("End", 0, 0, "-")

\* playlist::find and playlist::parse: the commands of a file, <<>> for a
\* file that is not found.
LegacyStore(path) ==
    CASE path = "g1" -> <<LWallpaper, LGoto(1, 2), LEnd>>
      [] path = "g2" -> <<LWallpaper, LWallpaper, LGoto(1, 1), LGoto(2, 1), LEnd>>
      [] path = "g3" -> <<LWallpaper, LGoto(1, 1), LGoto(1, 2), LEnd>>
      [] path = "s1" -> <<LSummon("e1"), LEnd>>
      [] path = "s2" -> <<LSummon("nofile"), LGap, LEnd>>
      [] path = "e1" -> <<LWallpaper, LEnd>>
      [] path = "r1" -> <<LWallpaper, LReplace("e1")>>
      [] path = "f1" -> <<LForever, LEnd>>
      [] path = "g0" -> <<LWallpaper, LGoto(1, 0)>>
      [] path = "blank" -> <<LGap, LGap>>
      [] OTHER -> <<>>

\* The playlists the daemon is started with (-p).
FirstPlaylists == {"g0", "g1", "g2", "g3", "s1", "s2", "e1", "r1", "f1", "blank", "nofile"}

\* self.commands.is_empty()
is_empty(commands) == \A k \in 1..Len(commands) : commands[k] = LGap

\* The key of self.commands.last_key_value().
last_line_num(commands) ==
    CHOOSE k \in 0..(Len(commands) - 1) :
        /\ commands[k + 1] # LGap
        /\ \A j \in (k + 1)..(Len(commands) - 1) : commands[j + 1] = LGap

NoThread ==
    [ pc |-> "none", key |-> 0, id |-> 0, dry |-> FALSE, commands |-> <<>>,
      index |-> 0, stored_gotos |-> <<>>, reports |-> 0, said |-> "-", hops |-> 0,
      streak |-> <<>>, lastGoto |-> [at |-> -1, before |-> 0, jumped |-> FALSE, to |-> 0] ]

\* summon_runner(id, playlist, tx): Runner::new(0, ..), then the thread
\* runs runner.init(playlist) and runner.dispatch(Cfg.dry_run).
summon_runner(id, playlist, dry) ==
    [ NoThread EXCEPT !.pc = "dispatch", !.key = id, !.id = 0, !.dry = dry,
                      !.commands = LegacyStore(playlist),
                      !.streak = [k \in 1..Len(LegacyStore(playlist)) |-> 0] ]

\* Runner::init on a running Runner (Command::Replace): a file that is not
\* found leaves the commands as they were.
init(th, path) ==
    IF LegacyStore(path) = <<>>
    THEN th
    ELSE [th EXCEPT !.commands = LegacyStore(path),
                    !.streak = [k \in 1..Len(LegacyStore(path)) |-> 0]]

\* Runner::search_cached_gotos: the first entry stored for the target line.
search_cached_gotos(stored, line) ==
    IF \E n \in 1..Len(stored) : stored[n].location = line
    THEN CHOOSE n \in 1..Len(stored) :
            /\ stored[n].location = line
            /\ \A m \in 1..(n - 1) : stored[m].location # line
    ELSE 0

\* Vec::remove
Remove(seq, n) == [m \in 1..(Len(seq) - 1) |-> IF m < n THEN seq[m] ELSE seq[m + 1]]

\* History of the goto at key at: the jumps it made in a row before this
\* encounter, whether it jumped now, and the index it left.
Encounter(th, at, jumped, to) ==
    [th EXCEPT !.hops = @ + 1,
               !.index = to,
               !.lastGoto = [at |-> at, before |-> th.streak[at + 1], jumped |-> jumped, to |-> to],
               !.streak = [@ EXCEPT ![at + 1] = IF jumped THEN @ + 1 ELSE 0]]

\* Command::Goto(line, count) in run() and dry_run(); self.index is already
\* past the goto (at + 1).
Goto(th, at, line, count) ==
    LET n == search_cached_gotos(th.stored_gotos, line)
    IN  IF count = 0
        THEN Encounter(th, at, TRUE, line - 1)
        ELSE IF n # 0
        THEN IF th.stored_gotos[n].remaining <= 1
             THEN [Encounter(th, at, FALSE, th.index) EXCEPT !.stored_gotos = Remove(@, n)]
             ELSE [Encounter(th, at, TRUE, line - 1) EXCEPT
                      !.stored_gotos = [@ EXCEPT ![n].remaining = @ - 1]]
        ELSE [Encounter(th, at, TRUE, line - 1) EXCEPT
                 !.stored_gotos = Append(@, [location |-> line, remaining |-> count])]

RequestExit(id) == [kind |-> "Exit", id |-> id, path |-> "-"]
RequestAbort(id) == [kind |-> "Abort", id |-> id, path |-> "-"]
RequestNewRunner(path) == [kind |-> "NewRunner", id |-> 0, path |-> path]

\* History of the requests the runner has sent: how many Exit or Abort, and
\* the last of them.
Report(th, kind) == [th EXCEPT !.reports = @ + 1, !.said = kind]

\* run() / dry_run() up to the loop: without commands run() returns and
\* dry_run() sends Abort.
ThreadDispatch(t) ==
    LET th == threads[t]
    IN  /\ th.pc = "dispatch"
        /\ IF is_empty(th.commands)
           THEN IF th.dry
                THEN /\ threads' = [threads EXCEPT ![t] = [Report(th, "Abort") EXCEPT !.pc = "finished"]]
                     /\ mailbox' = Append(mailbox, RequestAbort(th.id))
                ELSE /\ threads' = [threads EXCEPT ![t] = [th EXCEPT !.pc = "finished"]]
                     /\ UNCHANGED mailbox
           ELSE /\ threads' = [threads EXCEPT ![t] = [th EXCEPT !.pc = "loop"]]
                /\ UNCHANGED mailbox
        /\ UNCHANGED <<asyncVars, exec, file, parsed, known, request>>

\* One iteration of the loop.
ThreadLoop(t) ==
    LET th == threads[t]
        last == last_line_num(th.commands)
        at == IF th.index > last /\ ~th.dry THEN 0 ELSE th.index
        cmd == th.commands[at + 1]
        past == [th EXCEPT !.index = at + 1]
    IN  /\ th.pc = "loop"
        /\ th.hops < MaxHops
        /\ IF th.index > last /\ th.dry
           THEN /\ threads' = [threads EXCEPT ![t] = [Report(th, "Exit") EXCEPT !.pc = "finished"]]
                /\ mailbox' = Append(mailbox, RequestExit(th.id))
           ELSE CASE cmd.kind = "Goto" ->
                       /\ threads' = [threads EXCEPT ![t] = Goto(past, at, cmd.line, cmd.count)]
                       /\ UNCHANGED mailbox
                  [] cmd.kind = "Summon" ->
                       /\ threads' = [threads EXCEPT ![t] = past]
                       /\ mailbox' = Append(mailbox, RequestNewRunner(cmd.path))
                  [] cmd.kind = "Replace" ->
                       /\ threads' = [threads EXCEPT ![t] =
                             [init(past, cmd.path) EXCEPT !.pc = "dispatch"]]
                       /\ UNCHANGED mailbox
                  [] cmd.kind = "End" ->
                       /\ threads' = [threads EXCEPT ![t] = [Report(past, "Exit") EXCEPT !.pc = "finished"]]
                       /\ mailbox' = Append(mailbox, RequestExit(th.id))
                  [] cmd.kind = "Forever" /\ th.dry ->
                       /\ threads' = [threads EXCEPT ![t] = Report(past, "Exit")]
                       /\ mailbox' = Append(mailbox, RequestExit(th.id))
                  [] OTHER ->
                       /\ threads' = [threads EXCEPT ![t] = past]
                       /\ UNCHANGED mailbox
        /\ UNCHANGED <<asyncVars, exec, file, parsed, known, request>>

\* available_id: the smallest id that is not a key of the map.
available_id(ids) == CHOOSE id \in 0..Cardinality(ids) : id \notin ids /\ \A j \in 0..(id - 1) : j \in ids

FreeTids == {t \in Tids : threads[t].pc = "none"}

\* main: one iteration of `while !runners.is_empty()`, with the message
\* rx.recv() returns.
MainRecv ==
    LET message == Head(mailbox)
    IN  /\ known.pc = "recv"
        /\ known.ids # {}
        /\ mailbox # <<>>
        /\ mailbox' = Tail(mailbox)
        /\ IF message.kind \in {"Exit", "Abort"}
           THEN /\ known' = [known EXCEPT !.ids = @ \ {message.id}]
                /\ UNCHANGED threads
           ELSE IF FreeTids # {}
           THEN LET t == CHOOSE f \in FreeTids : \A g \in FreeTids : f <= g
                    id == available_id(known.ids)
                IN  /\ threads' = [threads EXCEPT ![t] = summon_runner(id, message.path, known.dry)]
                    /\ known' = [known EXCEPT !.ids = @ \cup {id}]
           ELSE UNCHANGED <<threads, known>>
        /\ UNCHANGED <<asyncVars, exec, file, parsed, request>>

\* main: the loop ends when no runner is known.
MainQuit ==
    /\ known.pc = "recv"
    /\ known.ids = {}
    /\ known' = [known EXCEPT !.pc = "done"]
    /\ UNCHANGED <<asyncVars, exec, file, parsed, threads, mailbox, request>>

\* main up to the loop: the first runner is summoned with id 0.
ThreadInit ==
    /\ \E playlist \in FirstPlaylists, dry \in BOOLEAN :
          /\ threads = [t \in Tids |->
                IF t = 1 THEN summon_runner(0, playlist, dry) ELSE NoThread]
          /\ known = [ids |-> {0}, pc |-> "recv", dry |-> dry]
    /\ mailbox = <<>>
    /\ runners = Off
    /\ registry = Off
    /\ accepting = Off
    /\ conn = Off
    /\ exec = Off
    /\ file = Off
    /\ parsed = Off
    /\ request = Off

ThreadNext ==
    \/ \E t \in Tids : ThreadDispatch(t) \/ ThreadLoop(t)
    \/ MainRecv
    \/ MainQuit

ThreadSpec == ThreadInit /\ [][ThreadNext]_vars

(***************************************************************************)
(* The request parser (utils/ipc.rs) in the control loop.  A request is    *)
(* the sequence of the whitespace-separated tokens of the line read from   *)
(* the connection: the verbs, "true", the monitor "m1", the playlist "p5", *)
(* a resume mode, "w" for any other word; "playm1", "pausetrue", "statusx" *)
(* and "quitx" are single words that begin with a verb.                    *)
(***************************************************************************)
Verbs == {"load", "unload", "pause", "play", "toggle", "status", "quit"}

Requests ==
    { <<>>, <<"w">>, <<"play">>, <<"play", "m1">>, <<"playm1">>,
      <<"pause", "true", "m1">>, <<"pause", "w", "m1">>, <<"pausetrue", "m1">>,
      <<"unload", "true", "m1">>, <<"toggle", "m1">>,
      <<"status">>, <<"statusx">>, <<"quit">>, <<"quitx">>,
      <<"load", "p5", "m1", "true", "ignoredel">>, <<"load", "p5", "m1">> }

\* What follows verb v in token t: "" when t is the verb, the rest of the
\* word when t begins with it, "no" when it does not.
IpcStrip(v, t) ==
    CASE t = v -> ""
      [] v = "play" /\ t = "playm1" -> "m1"
      [] v = "pause" /\ t = "pausetrue" -> "true"
      [] v = "status" /\ t = "statusx" -> "w"
      [] v = "quit" /\ t = "quitx" -> "w"
      [] OTHER -> "no"

\* tag(v) followed by space0.
ipc_tag(v, l) ==
    IF l = <<>> \/ IpcStrip(v, Head(l)) = "no"
    THEN [ok |-> FALSE, rest |-> l]
    ELSE [ok |-> TRUE,
          rest |-> IF IpcStrip(v, Head(l)) = "" THEN Tail(l)
                   ELSE <<IpcStrip(v, Head(l))>> \o Tail(l)]

\* An IPCCmd, or the nom ErrorKind of the parser that failed.
IpcOk(kind, path, monitor, flag) ==
    [ok |-> TRUE, code |-> "-", kind |-> kind, path |-> path, monitor |-> monitor, flag |-> flag]
IpcErr(code) ==
    [ok |-> FALSE, code |-> code, kind |-> "-", path |-> "-", monitor |-> "-", flag |-> FALSE]

\* str::parse::<bool>
IsBool(t) == t \in {"true", "false"}

\* ResumeMode::from_str
IsResumeMode(t) == t \in {"ignore", "ignoredel", "applydel", "apply"}

parse_quit(l) ==
    IF ipc_tag("quit", l).ok THEN IpcOk("quit", "-", "-", FALSE) ELSE IpcErr("Tag")

parse_status(l) ==
    IF ipc_tag("status", l).ok THEN IpcOk("status", "-", "-", FALSE) ELSE IpcErr("Tag")

parse_toggle(l) ==
    LET r == ipc_tag("toggle", l).rest
    IN  IF ~ipc_tag("toggle", l).ok THEN IpcErr("Tag")
        ELSE IF r = <<>> THEN IpcErr("TakeTill1")
        ELSE IpcOk("toggle", "-", r[1], FALSE)

parse_play(l) ==
    LET r == ipc_tag("play", l).rest
    IN  IF ~ipc_tag("play", l).ok THEN IpcErr("Tag")
        ELSE IF r = <<>> THEN IpcErr("TakeTill1")
        ELSE IpcOk("play", "-", r[1], FALSE)

\* parse_pause and parse_unload: the verb, a bool, the monitor.
parse_flagged(v, l) ==
    LET r == ipc_tag(v, l).rest
    IN  IF ~ipc_tag(v, l).ok THEN IpcErr("Tag")
        ELSE IF r = <<>> THEN IpcErr("TakeTill1")
        ELSE IF ~IsBool(r[1]) THEN IpcErr("MapRes")
        ELSE IF Len(r) < 2 THEN IpcErr("TakeTill1")
        ELSE IpcOk(v, "-", r[2], r[1] = "true")

parse_load(l) ==
    LET r == ipc_tag("load", l).rest
    IN  IF ~ipc_tag("load", l).ok THEN IpcErr("Tag")
        ELSE IF Len(r) < 3 THEN IpcErr("TakeTill1")
        ELSE IF ~IsBool(r[3]) THEN IpcErr("MapRes")
        ELSE IF Len(r) < 4 THEN IpcErr("TakeTill1")
        ELSE IF ~IsResumeMode(r[4]) THEN IpcErr("MapRes")
        ELSE IpcOk("load", r[1], r[2], r[3] = "true")

\* alt((parse_play, parse_pause, parse_toggle, parse_status, parse_load,
\* parse_unload, parse_quit)): the first success, else the error of the last.
parse_cmd(l) ==
    CASE parse_play(l).ok -> parse_play(l)
      [] parse_flagged("pause", l).ok -> parse_flagged("pause", l)
      [] parse_toggle(l).ok -> parse_toggle(l)
      [] parse_status(l).ok -> parse_status(l)
      [] parse_load(l).ok -> parse_load(l)
      [] parse_flagged("unload", l).ok -> parse_flagged("unload", l)
      [] OTHER -> parse_quit(l)

\* ipc::parse (IPCCmd::from_str): the ErrorKind mapped to a ParseError.
ipc_parse(l) ==
    LET r == parse_cmd(l)
    IN  CASE r.ok -> r
          [] r.code \in {"Tag", "MapRes"} -> IpcErr("InvalidArgument")
          [] OTHER -> IpcErr("CommandNotFound")

\* A client connects and writes a line; accept() and read_line return it.
Connect(req) ==
    /\ Idle
    /\ request # req
    /\ request' = req
    /\ UNCHANGED <<asyncVars, exec, file, parsed, threads, known, mailbox>>

\* LxWEngd::start, one iteration of the loop: IPCCmd::from_str and the
\* branch of the match.
Serve ==
    LET cmd == ipc_parse(request)
    IN  CASE ~cmd.ok -> Unparsable
          [] cmd.kind = "load" -> Load(cmd.path, cmd.monitor)
          [] cmd.kind = "unload" -> Unload(cmd.monitor)
          [] cmd.kind = "pause" -> Pause(cmd.flag, cmd.monitor)
          [] cmd.kind = "play" -> Play(cmd.monitor)
          [] cmd.kind = "toggle" -> Toggle
          [] cmd.kind = "status" -> StatusPurge
          [] OTHER -> Quit

IpcInit ==
    /\ runners = [r \in Rids |-> NoRunner]
    /\ registry = [m \in Monitors |-> 0]
    /\ accepting = TRUE
    /\ conn = NoConn
    /\ request = <<>>
    /\ exec = Off
    /\ file = Off
    /\ parsed = Off
    /\ threads = Off
    /\ known = Off
    /\ mailbox = Off

IpcNext ==
    \/ \E req \in Requests : Connect(req)
    \/ Serve
    \/ StatusWrite
    \/ \E r \in Rids : RunnerStep(r) \/ ChildExits(r)

IpcSpec == IpcInit /\ [][IpcNext]_vars

(***************************************************************************)
(* Properties.                                                             *)
(***************************************************************************)
Length(r) == Len(runners[r].commands)

\* C1: at every instant at most one child process spawned by a Runner is
\* alive (every Execution is cleaned up before the next one is begun).
C1_AtMostOneLiveChild == \A r \in Rids : LiveChildren(runners[r]) <= 1

\* C2: the index used to fetch a command is always in [0, len): the fetch
\* never fails, whatever Prev, Goto(i), Exec, Pause or results came before.
C2_CursorInRange ==
    \A r \in Rids :
        /\ ~runners[r].badFetch
        /\ runners[r].nextDisp # -1 => runners[r].nextDisp \in 0..(Length(r) - 1)

\* C2 witness: a command was dispatched after a Goto beyond the last index.
C2_Witness ==
    \E r \in Rids :
        /\ runners[r].lastRes = "Goto"
        /\ runners[r].lastArg >= Length(r)
        /\ runners[r].nextDisp # -1

\* C3: a load for a monitor whose registered runner has not exited is
\* answered "already in use", and every runner that exists is the one
\* registered under its monitor (no key has two runners, no runner task runs
\* beside the registered one).
C3_LoadInUse ==
    /\ (conn.verb = "load" /\ conn.live) => conn.resp = "AlreadyInUse"
    /\ \A r \in Rids : Created(r) => registry[runners[r].mon] = r

\* C3 witness: a load was refused for a monitor whose runner is alive.
C3_Witness ==
    /\ conn.verb = "load"
    /\ conn.live
    /\ conn.resp = "AlreadyInUse"
    /\ registry[conn.monitor] # 0
    /\ runners[registry[conn.monitor]].state = "Running"

C5_EventuallyExited == <>(runners[1].state = "Exited")

C7_ExecKeepsCursor ==
    \A r \in Rids :
        LET x == runners[r]
        IN  x.lastRes = "Exec" =>
                /\ x.index = x.lastIdx
                /\ x.nextDisp = -1
                /\ x.src = "exec"
                /\ x.cmd \in ExecCmds
                /\ x.pc \in {"begin", "result", "panicked"}

\* C7 witness: the command of an Exec is running, at a cursor other than 0.
C7_Witness ==
    \E r \in Rids :
        /\ runners[r].lastRes = "Exec"
        /\ runners[r].pc = "result"
        /\ runners[r].lastIdx > 0

\* C8: while a runner is paused by Pause(clear = true), none of its children
\* is alive.
C8_PauseClearNoChild ==
    \A r \in Rids :
        (runners[r].pc = "paused" /\ runners[r].lastArg = 1)
            => LiveChildren(runners[r]) = 0

C10_ExitStops ==
    \A r \in Rids :
        LET x == runners[r]
        IN  x.lastRes = "Exit" =>
                /\ x.nextDisp = -1
                /\ x.pc \in {"exiting", "done"}
                /\ LiveChildren(x) = 0
                /\ x.pc = "done" => x.state = "Exited"

\* The step of runner r that receives an Action in the Pause wait.
PauseEnds(r) == runners[r].pc = "paused" /\ runners'[r].pc # "paused"

\* C11: an Exit received by a paused runner makes it leave its loop (the
\* next thing it does is set state Exited); it does not go on to another
\* command.
C11_ExitWhilePaused ==
    [][\A r \in Rids :
          (PauseEnds(r) /\ Head(runners[r].rx) = ActExit)
              => runners'[r].pc = "exiting"]_vars

ForwardRequest(m) ==
    Unload(m) \/ Play(m) \/ \E clear \in BOOLEAN : Pause(clear, m)

LoadConstructs(path, m) ==
    Load(path, m) /\ ~contains_key(try_cleanup(registry, runners), m)

C18_OneResponse ==
    (conn.verb # "-" /\ conn.resp # "pending")
        => /\ conn.resp # "none"
           /\ conn.verb # "quit" => accepting

\* C16: after quit was answered (Exit forwarded to every handle, OK, accept
\* loop left) every runner eventually is neither Running nor Paused.
C16_QuitStopsRunners ==
    (conn.verb = "quit" /\ conn.resp = "OK" /\ ~accepting)
        ~> (\A r \in Rids : runners[r].state \notin {"Running", "Paused"})

\* C19: the channel of a runner only grows at its end (a send) and shrinks
\* at its head, by one Action, in a step taken at Execution::result or at
\* the Pause wait; the Action applied at Execution::result is the head; the
\* other steps of a running task leave the channel alone.
C19_FifoOrder ==
    [][\A r \in Rids :
          LET x == runners[r]
              y == runners'[r]
          IN  /\ \/ y.rx = x.rx
                 \/ \E a \in Action : y.rx = Append(x.rx, a)
                 \/ x.rx # <<>> /\ y.rx = Tail(x.rx)
                 \/ Closed(y)
              /\ (x.pc = "result" /\ y.pc # "result" /\ y.lastRes \notin {"Elapsed", "Error"})
                    => /\ x.rx # <<>>
                       /\ y.lastRes = Head(x.rx).kind
                       /\ Closed(y) \/ y.rx = Tail(x.rx)
              /\ (x.pc = "paused" /\ y.pc # "paused")
                    => x.rx # <<>> /\ y.rx = Tail(x.rx)
              /\ (x.pc \notin {"result", "paused"} /\ ~Closed(y))
                    => Len(y.rx) >= Len(x.rx)]_vars

\* C19 witness: a Pause was taken from the channel at Execution::result
\* while further Actions wait behind it.
C19_Witness ==
    \E r \in Rids :
        /\ runners[r].pc = "paused"
        /\ runners[r].lastRes = "Pause"
        /\ Len(runners[r].rx) >= 2

\* C20: dispatching Default(props) leaves defaults in which every key of
\* props has the new value and every other key the value it had; no
\* Execution is begun and the cursor then advances by one.
C20_DefaultMerges ==
    [][\A r \in Rids :
          LET x == runners[r]
              y == runners'[r]
              i == Normalize(x.index, Len(x.commands))
          IN  /\ (x.pc = "fetch" /\ y.pc = "advance")
                    => /\ y.default_props =
                            [k \in PropKeys |->
                                IF x.commands[i + 1].props[k] # "-"
                                THEN x.commands[i + 1].props[k]
                                ELSE x.default_props[k]]
                       /\ y.child = x.child
                       /\ y.state = x.state
                       /\ y.index = i
              /\ (x.pc = "advance" /\ y.pc = "fetch") => y.index = x.index + 1]_vars

\* C21: after an Execution at cursor c is interrupted by Prev the cursor is
\* c - 1, the next command dispatched is the one at c - 1, and the
\* interrupted Execution was cleaned up (its child is not left alive).
C21_PrevStepsBack ==
    \A r \in Rids :
        LET x == runners[r]
        IN  x.lastRes = "Prev" =>
                /\ x.nextDisp = -1 => (x.pc = "fetch" /\ x.index = x.lastIdx - 1)
                /\ x.nextDisp # -1 => x.nextDisp = x.lastIdx - 1
                /\ x.child # "alive" \/ x.nextDisp # -1

\* The step of runner r in which Execution::result returns.
ResultReturns(r) == runners[r].pc = "result" /\ runners'[r].pc # "result"

\* C22: an Execution's result is Elapsed only if its duration is Finite,
\* Error only if it supervises a child and the child has exited on its own,
\* and Interrupted(a) only if a was the Action at the head of the channel.
C22_ResultKinds ==
    [][\A r \in Rids :
          LET x == runners[r]
              y == runners'[r]
          IN  ResultReturns(r) =>
                /\ y.lastRes = "Elapsed" => x.cmd.dur = "Finite"
                /\ y.lastRes = "Error" => (x.cmd.kind = "Wallpaper" /\ x.child = "exited")
                /\ y.lastRes \notin {"Elapsed", "Error"}
                      => (x.rx # <<>> /\ Head(x.rx).kind = y.lastRes)]_vars

\* C22 witness: a wallpaper of infinite duration ended with Error (its child
\* exited), and the runner goes on.
C22_Witness ==
    \E r \in Rids :
        /\ runners[r].lastRes = "Error"
        /\ runners[r].cmd.kind = "Wallpaper"
        /\ runners[r].cmd.dur = "Infinite"
        /\ runners[r].pc = "advance"

\* The step in which cleanup() is called on the Execution.
CleanupStep == exec'.calls = exec.calls + 1

\* C23 as claimed: a further cleanup() changes nothing and returns Ok;
\* cleanup() with the child exited or without a child sends no signal and
\* returns Ok; CleanupFail only when the signal could not be delivered to a
\* child that is still alive.
C23_CleanupIdempotent ==
    [][CleanupStep =>
          /\ exec.calls >= 1 => (exec'.child = exec.child /\ exec'.ret = "Ok")
          /\ exec.child \in {"exited", "none"}
                => (exec'.signals = exec.signals /\ exec'.ret = "Ok")
          /\ exec'.ret = "CleanupFail"
                => (exec'.cause = "kill" /\ exec.child \in {"alive", "termed"})]_vars

\* C23 as amended: after a cleanup() that returned Ok a further cleanup()
\* leaves the Execution and its child as they are; with the child exited or
\* without a child no signal is sent, and Sleep always returns Ok; cleanup()
\* returns Ok unless the status query or the signal fails; CleanupFail is
\* returned only when the status of the child could not be read (no signal
\* is sent then) or the signal could not be delivered to a child that has
\* not exited.
C23_CleanupIdempotentOrStatus ==
    [][CleanupStep =>
          /\ (exec.calls >= 1 /\ exec.ret = "Ok") => exec'.child = exec.child
          /\ exec.child \in {"exited", "none"} => exec'.signals = exec.signals
          /\ exec.kind = "Sleep" => exec'.ret = "Ok"
          /\ exec'.ret \in {"Ok", "CleanupFail"}
          /\ exec'.ret = "Ok" => exec'.cause = "-"
          /\ exec'.ret = "CleanupFail"
                => \/ /\ exec'.cause = "status"
                      /\ exec.kind = "Supervise"
                      /\ exec'.signals = exec.signals
                      /\ exec'.child = exec.child
                   \/ /\ exec'.cause = "kill"
                      /\ exec.child \in {"alive", "termed"}
                      /\ exec'.child = exec.child]_vars

\* C23 witness: a second cleanup() returned Ok without a signal, the child
\* having exited after the SIGTERM of the first.
C23_Witness ==
    /\ exec.calls = 2
    /\ exec.signals = 1
    /\ exec.child = "exited"
    /\ exec.ret = "Ok"

\* C24: remaining() is None exactly for an Infinite duration, otherwise the
\* duration minus the elapsed time, between zero and the duration; when the
\* runner records Paused(remaining) the subtraction does not underflow.
C24_RemainingDefined ==
    /\ exec.pc # "panicked"
    /\ exec.pc = "paused" =>
          /\ exec.rem.some <=> exec.duration.some
          /\ exec.rem.some =>
                /\ exec.rem.v = exec.duration.v - exec.elapsed
                /\ exec.rem.v \in 0..exec.duration.v

\* The step of runner r in which Execution::begin is called for a Wallpaper.
BeginsWallpaper(r) ==
    /\ runners[r].pc = "begin"
    /\ runners[r].cmd.kind = "Wallpaper"
    /\ runners'[r].pc # "begin"

\* C25: when Execution::begin is called for a Wallpaper, either the child
\* is spawned and supervised, or (the spawn failed) no child is recorded and
\* the runner task goes on: the task does not abort.
C25_SpawnFailureConfined ==
    [][\A r \in Rids :
          BeginsWallpaper(r) =>
              /\ runners'[r].pc # "panicked"
              /\ runners'[r].child = "alive" <=> runners'[r].pc = "result"]_vars

\* C26: a runner task holds the lock of its handle only inside the fetch
\* block, which has no suspension point: never while it waits in
\* Execution::result() or in the Pause wait, nor at any other position; the
\* holder can always release it by a step of its own.
C26_LockOnlyInFetch ==
    \A r \in Rids :
        /\ runners[r].pc \in {"result", "paused"} => runners[r].lock # "task"
        /\ runners[r].lock = "task" => runners[r].pc = "fetch"
        /\ runners[r].lock = "control" => Created(r)

\* C26 witness: the control loop holds the lock of a handle whose runner is
\* suspended in the Pause wait with an Action waiting in the channel.
C26_Witness ==
    \E r \in Rids :
        /\ runners[r].pc = "paused"
        /\ runners[r].lock = "control"
        /\ runners[r].lastRes = "Pause"

\* Line i of the file holds a command: it is neither blank nor a comment
\* and it parses.
ValidLine(i) ==
    /\ file[i] # <<>>
    /\ Head(file[i]) # "#"
    /\ parse(file[i]).ok

\* The number of lines up to line i that hold a command.
Rank(i) == Cardinality({j \in 1..i : ValidLine(j)})

\* C27: the parsed playlist is the in-order sequence of the commands of the
\* lines that parse: one entry per such line, at the position given by the
\* number of such lines up to it; blank lines, comment lines and lines that
\* fail to parse contribute nothing and do not end the parse.
C27_ParseKeepsValidLines ==
    parsed.pc = "file" =>
        /\ Len(parsed.cmds) = Rank(Len(file))
        /\ \A i \in 1..Len(file) :
              ValidLine(i) => parsed.cmds[Rank(i)] = parse(file[i]).cmd

\* C27 witness: a line that fails to parse is followed by a line that
\* parses, whose command is in the result.
C27_Witness ==
    /\ parsed.pc = "file"
    /\ \E i \in 1..Len(file), j \in 1..Len(file) :
          /\ i < j
          /\ file[i] # <<>>
          /\ Head(file[i]) # "#"
          /\ ~parse(file[i]).ok
          /\ ValidLine(j)
          /\ parsed.cmds = <<parse(file[j]).cmd>>

\* The tokens of line l where its properties would be: after the id and the
\* duration, up to a comment.
RECURSIVE UpToComment(_)
UpToComment(l) ==
    IF l = <<>> \/ Head(l) = "#" THEN <<>> ELSE <<Head(l)>> \o UpToComment(Tail(l))

\* C28: an empty line is CommandNotFound; a recognized head whose required
\* duration is missing is NotEnoughArguments; a duration that does not
\* convert, or a property token without `=`, is InvalidArgument.
C28_ErrorPriority ==
    parsed.pc = "line" =>
        LET l == parsed.line
        IN  /\ l = <<>> => parsed.ret = PErr("CommandNotFound")
            /\ (l # <<>> /\ Head(l) \in {"sleep", "w"} /\ UpToComment(Tail(l)) = <<>>)
                  => parsed.ret = PErr("NotEnoughArguments")
            /\ (l # <<>> /\ Head(l) \in {"sleep", "w"} /\ UpToComment(Tail(l)) # <<>>
                  /\ Head(Tail(l)) \notin {"5m", "infinite"})
                  => parsed.ret = PErr("InvalidArgument")
            /\ (l # <<>> /\ Head(l) = "w" /\ Len(UpToComment(l)) >= 3
                  /\ l[2] \in {"5m", "infinite"} /\ l[3] # "fps=30")
                  => parsed.ret = PErr("InvalidArgument")

\* C29: a `goto L N` with N > 0 jumps on an encounter exactly when it has
\* made fewer than N jumps in a row, and falls through (starting a fresh
\* cycle) when it has made N.
C29_GotoCounts ==
    \A t \in Tids :
        LET th == threads[t]
            g == th.lastGoto
        IN  (g.at # -1 /\ th.commands[g.at + 1].kind = "Goto" /\ th.commands[g.at + 1].count > 0) =>
                /\ g.jumped <=> g.before < th.commands[g.at + 1].count
                /\ g.jumped => g.to = th.commands[g.at + 1].line - 1
                /\ ~g.jumped => g.to = g.at + 1

\* C30: a runner thread that has finished has reported exactly once, with
\* the id it is known under; and when every runner has finished and every
\* report was handled, no runner is known any more (the loop of main ends).
C30_RunnersReport ==
    /\ \A t \in Tids :
          threads[t].pc = "finished" =>
              /\ threads[t].reports = 1
              /\ threads[t].id = threads[t].key
    /\ ((\A t \in Tids : threads[t].pc \in {"none", "finished"}) /\ mailbox = <<>>)
          => known.ids = {}

\* C31: a dry run sends exactly one Exit or Abort, as its last act: none
\* while it runs, and once it has finished exactly one, Abort when the
\* playlist has no commands and Exit otherwise.
C31_DryRunOneReport ==
    \A t \in Tids :
        LET th == threads[t]
        IN  (th.pc # "none" /\ th.dry) =>
                IF th.pc = "finished"
                THEN /\ th.reports = 1
                     /\ th.said = IF is_empty(th.commands) THEN "Abort" ELSE "Exit"
                ELSE th.reports = 0

\* The command a runner thread in the loop executes next: LGap when the
\* index is past the last line.
Current(th) ==
    IF th.pc = "loop" /\ th.index <= last_line_num(th.commands)
    THEN th.commands[th.index + 1]
    ELSE LGap

\* C33: a dry run that executes a goto with count 0, or finds its index past
\* the last line, exits in that step.
C33_DryRunExits ==
    [][\A t \in Tids :
          LET th == threads[t]
          IN  (/\ th.dry
               /\ th.pc = "loop"
               /\ threads'[t] # th
               /\ \/ th.index > last_line_num(th.commands)
                  \/ (Current(th).kind = "Goto" /\ Current(th).count = 0))
                  => threads'[t].pc = "finished"]_vars

\* The remaining jumps stored for the goto at key g: 0 when nothing is
\* stored for it.
Remaining(th, g) ==
    LET n == search_cached_gotos(th.stored_gotos, th.commands[g + 1].line)
    IN  IF n = 0 THEN 0 ELSE th.stored_gotos[n].remaining

\* C39: executing one goto command leaves the remaining jumps of every other
\* counted goto command of the playlist as they were.
C39_CountersIndependent ==
    [][\A t \in Tids :
          LET th == threads[t]
          IN  (/\ th.pc = "loop"
               /\ threads'[t].pc = "loop"
               /\ threads'[t].hops = th.hops + 1
               /\ threads'[t].commands = th.commands)
                  => \A g \in 0..(Len(th.commands) - 1) :
                        (/\ th.commands[g + 1].kind = "Goto"
                         /\ th.commands[g + 1].count > 0
                         /\ g # threads'[t].lastGoto.at)
                            => Remaining(threads'[t], g) = Remaining(th, g)]_vars

\* The control loop handles a load, the first statement of a status, or a
\* quit in this step.
AccessesRegistry ==
    \/ \E q \in LoadRequests : Load(q[1], q[2])
    \/ StatusPurge
    \/ Quit

\* C32: load, status and quit first purge the registry: after the step no
\* handle that was Exited before it is registered; a step removes or
\* replaces only handles whose state is Exited.
C32_PurgeBeforeUse ==
    [][/\ AccessesRegistry =>
            \A m \in Monitors :
                (registry[m] # 0 /\ runners[registry[m]].state = "Exited")
                    => (registry'[m] = 0 \/ runners'[registry'[m]].state # "Exited")
       /\ \A m \in Monitors :
            (registry[m] # 0 /\ runners[registry[m]].state # "Exited")
                => registry'[m] = registry[m]]_vars

\* C34: a registered handle whose runner task has ended, by returning from
\* run() or by a panic, has state Exited.
C34_StoppedIsExited ==
    \A m \in Monitors :
        (registry[m] # 0 /\ runners[registry[m]].pc \in {"done", "panicked"})
            => runners[registry[m]].state = "Exited"

\* C35: Execution::begin is only called with a Wallpaper or a Sleep.
C35_BeginLongRunning ==
    \A r \in Rids :
        runners[r].pc = "begin" => runners[r].cmd.kind \in {"Wallpaper", "Sleep"}

\* C36: a load for a monitor whose registered handle has not exited is
\* answered "already in use" and leaves that monitor's registry entry and
\* its runner (state, cursor, queue of Actions) as they were.
C36_RejectedLoadFrame ==
    [][\A q \in LoadRequests :
          (Load(q[1], q[2]) /\ Live(registry, runners, q[2]))
              => /\ conn'.resp = "AlreadyInUse"
                 /\ registry'[q[2]] = registry[q[2]]
                 /\ runners'[registry[q[2]]] = runners[registry[q[2]]]]_vars

\* C36 witness: a load was refused for a monitor whose runner is paused and
\* has nothing in its queue.
C36_Witness ==
    /\ conn.verb = "load"
    /\ conn.live
    /\ conn.resp = "AlreadyInUse"
    /\ registry[conn.monitor] # 0
    /\ runners[registry[conn.monitor]].state = "Paused"
    /\ runners[registry[conn.monitor]].rx = <<>>

\* C38: a line parses to End, Sleep or Default only when its first token is
\* exactly that keyword; a line whose first token is anything else, followed
\* by a duration, parses to a Wallpaper whose id is that token.
C38_KeywordIsWholeToken ==
    parsed.pc = "line" =>
        LET l == parsed.line
            r == parsed.ret
        IN  /\ (r.ok /\ r.cmd.kind = "End") => Head(l) = "end"
            /\ (r.ok /\ r.cmd.kind = "Sleep") => Head(l) = "sleep"
            /\ (r.ok /\ r.cmd.kind = "Default") => Head(l) = "default"
            /\ (/\ Len(l) >= 2
                /\ Head(l) \notin {"end", "sleep", "default", "#"}
                /\ l[2] \in {"5m", "infinite"})
                  => /\ r.ok
                     /\ r.cmd.kind = "Wallpaper"
                     /\ r.cmd.id = Head(l)

\* C37: a request is handled as verb V only if its first token is V, and a
\* request whose first token is not a verb is answered with the parse error
\* and leaves the runners and the registry as they were.
C37_VerbIsWholeToken ==
    [][Serve =>
          /\ conn'.verb \in Verbs => (request # <<>> /\ Head(request) = conn'.verb)
          /\ (request = <<>> \/ Head(request) \notin Verbs)
                => /\ conn'.resp = "ParseError"
                   /\ runners' = runners
                   /\ registry' = registry]_vars

====
